---- MODULE Spec2Model ----
(***************************************************************************)
(* Model of the patch engine of scrapbox-skill (src/src/client.ts):        *)
(* ScrapboxClient.patch and append, buildOps, groupOps, applyOps,           *)
(* deleteLines, insertLines, findLine and tryInternalPatch.                *)
(*                                                                         *)
(* A text is a sequence of characters, NL being the line separator; a line *)
(* text is a sequence of characters without NL.  A document is a sequence  *)
(* of LineInfo records [id, text]; id NoId stands for an absent id.        *)
(* The editor is an array of line elements: removing a line removes its    *)
(* element, typing lines above or below an anchor adds fresh elements.     *)
(***************************************************************************)
EXTENDS Integers, Sequences, FiniteSets, TLC

VARIABLES
    doc,          \* the live document: sequence of LineInfo
    updated,      \* the live document's revision token (pageJson.updated)
    nextId,       \* the id the editor gives to the next new line element
    writes,       \* modifications made by other writers and by append
    app,          \* position of the append invocation
    pc,           \* position of the patch invocation (or of the simulation)
    opts,         \* PatchOptions: [dryRun, checkUpdated, fuzz]; waitMs where it is read
    patch,        \* the parsed first patch of diffText: [oldStart, hunk]
    cap,          \* what the page's scripting bridge turned out to be
    seenLen,      \* oldLen of the script of tryInternalPatch: the lines it found
    lines,        \* snapshot taken by the initial read (extractLines)
    baseUpdated,  \* pageJson.updated of the initial read
    originalText, \* linesToText(lines)
    newText,      \* applyPatch(originalText, patch)
    latest,       \* latest.updated of the staleness re-fetch
    ops,          \* buildOps(originalText, newText)
    internal,     \* what tryInternalPatch returned
    groups,       \* groupOps(ops): anchor index -> OpGroup
    indices,      \* anchor indices still to execute, descending
    delDone,      \* iterations of deleteLines done for the head group
    probe,        \* count() reads findLine has made for the line it looks for
    locator,      \* the locator findLine returned, not yet acted upon
    focus,        \* id of the line element that has the keyboard focus
    pageOpen,     \* the page of the patch invocation is open
    afterText,    \* text re-read by the verification
    result,       \* how the invocation ended
    returned,     \* the value patch returned
    fastMuts,     \* updateLine/insertLine calls issued by this invocation
    slowMuts,     \* simulated-input mutations issued by this invocation
    located       \* position findLine resolved, when applied on its own

envVars  == <<updated, writes>>
inVars   == <<opts, patch>>
readVars == <<lines, baseUpdated, originalText, newText>>
loopVars == <<groups, indices, delDone, probe, locator, focus>>
endVars  == <<afterText, returned, located>>

vars == <<doc, nextId, pc, cap, seenLen, latest, ops, internal, pageOpen, result, fastMuts,
          slowMuts, app, envVars, inVars, readVars, loopVars, endVars>>

----------------------------------------------------------------------------
(* Bounds *)

MaxLines == 3        \* longest line sequence of the planning simulation

NL == "\n"
NoId == 0
Chars == {"a", "b"}
\* line texts: the empty line and the one-character lines
LineTexts == {<<>>} \cup {<<c>> : c \in Chars}

Min(a, b) == IF a < b THEN a ELSE b
Max(a, b) == IF a > b THEN a ELSE b

SeqsUpTo(S, n) == UNION {[1..k -> S] : k \in 0..n}

----------------------------------------------------------------------------
(* Text helpers: Array.prototype.join('\n') and String.prototype.split('\n') *)

RECURSIVE JoinFrom(_, _)
JoinFrom(ls, k) ==
    IF k > Len(ls) THEN <<>>
    ELSE IF k = Len(ls) THEN ls[k]
    ELSE ls[k] \o <<NL>> \o JoinFrom(ls, k + 1)

JoinNL(ls) == JoinFrom(ls, 1)

RECURSIVE SplitFrom(_, _, _, _)
SplitFrom(text, k, cur, acc) ==
    IF k > Len(text) THEN Append(acc, cur)
    ELSE IF text[k] = NL THEN SplitFrom(text, k + 1, <<>>, Append(acc, cur))
    ELSE SplitFrom(text, k + 1, Append(cur, text[k]), acc)

SplitNL(text) == SplitFrom(text, 1, <<>>, <<>>)

TextsOf(d) == [i \in 1..Len(d) |-> d[i].text]

\* client.ts linesToText
linesToText(ls) == JoinNL(TextsOf(ls))

\* client.ts splitLines
splitLines(value) ==
    LET ls == SplitNL(value)
    IN  IF Len(ls) > 0 /\ ls[Len(ls)] = <<>> THEN SubSeq(ls, 1, Len(ls) - 1) ELSE ls

----------------------------------------------------------------------------
(* diffLines of the diff package, as buildOps calls it: line tokens keep   *)
(* their line separator, the alignment is Myers' greedy algorithm.         *)
(* The package is the one of release 5: in the alignment a tie between an  *)
(* insertion and a removal goes to the insertion, a removal that follows   *)
(* an insertion is put before it, and two equal texts give one unchanged   *)
(* part.                                                                   *)

\* lineDiff.tokenize: one token per line, the separator kept on the token
Tokenize(text) ==
    LET ps == SplitNL(text)
        n  == Len(ps)
        m  == IF ps[n] = <<>> THEN n - 1 ELSE n
    IN  [i \in 1..m |-> IF i < n THEN ps[i] \o <<NL>> ELSE ps[i]]

Undef == [def |-> FALSE, oldPos |-> -1, comps |-> <<>>]
Path(o, c) == [def |-> TRUE, oldPos |-> o, comps |-> c]

addToPath(path, added, removed, oldPosInc) ==
    LET c == path.comps
        n == Len(c)
    IN  IF n > 0 /\ c[n].added = added /\ c[n].removed = removed
        THEN Path(path.oldPos + oldPosInc, [c EXCEPT ![n].count = @ + 1])
        ELSE Path(path.oldPos + oldPosInc,
                  Append(c, [count |-> 1, added |-> added, removed |-> removed]))

RECURSIVE CommonCount(_, _, _, _)
CommonCount(old, new, oldPos, newPos) ==
    IF newPos + 1 < Len(new) /\ oldPos + 1 < Len(old)
       /\ old[oldPos + 2] = new[newPos + 2]
    THEN 1 + CommonCount(old, new, oldPos + 1, newPos + 1)
    ELSE 0

extractCommon(basePath, new, old, diagonalPath) ==
    LET newPos == basePath.oldPos - diagonalPath
        k      == CommonCount(old, new, basePath.oldPos, newPos)
    IN  [path |-> Path(basePath.oldPos + k,
                       IF k > 0
                       THEN Append(basePath.comps,
                                   [count |-> k, added |-> FALSE, removed |-> FALSE])
                       ELSE basePath.comps),
         newPos |-> newPos + k]

RECURSIVE execEditLength(_, _, _, _, _, _, _)
execEditLength(old, new, editLength, diagonalPath, bestPath, minDiag, maxDiag) ==
    IF diagonalPath > Min(maxDiag, editLength)
    THEN IF editLength + 1 > Len(old) + Len(new) THEN <<>>
         ELSE execEditLength(old, new, editLength + 1,
                             Max(minDiag, -(editLength + 1)), bestPath, minDiag, maxDiag)
    ELSE
      LET removePath == bestPath[diagonalPath - 1]
          addPath    == bestPath[diagonalPath + 1]
          cleared    == IF removePath.def
                        THEN [bestPath EXCEPT ![diagonalPath - 1] = Undef]
                        ELSE bestPath
          canAdd     == /\ addPath.def
                        /\ 0 <= addPath.oldPos - diagonalPath
                        /\ addPath.oldPos - diagonalPath < Len(new)
          canRemove  == removePath.def /\ removePath.oldPos + 1 < Len(old)
      IN  IF ~canAdd /\ ~canRemove
          THEN execEditLength(old, new, editLength, diagonalPath + 2,
                              [cleared EXCEPT ![diagonalPath] = Undef], minDiag, maxDiag)
          ELSE
            LET tieToAdd == removePath.oldPos + 1 < addPath.oldPos
                basePath == IF ~canRemove \/ (canAdd /\ tieToAdd)
                            THEN addToPath(addPath, TRUE, FALSE, 0)
                            ELSE addToPath(removePath, FALSE, TRUE, 1)
                ec == extractCommon(basePath, new, old, diagonalPath)
            IN  IF ec.path.oldPos + 1 >= Len(old) /\ ec.newPos + 1 >= Len(new)
                THEN ec.path.comps
                ELSE execEditLength(old, new, editLength, diagonalPath + 2,
                        [cleared EXCEPT ![diagonalPath] = ec.path],
                        IF ec.newPos + 1 >= Len(new)
                        THEN Max(minDiag, diagonalPath + 1) ELSE minDiag,
                        IF ec.path.oldPos + 1 >= Len(old)
                        THEN Min(maxDiag, diagonalPath - 1) ELSE maxDiag)

\* the components (count, added, removed) of the alignment of two token lists
DiffComponents(old, new) ==
    LET n    == Len(old) + Len(new) + 1
        seed == extractCommon(Path(-1, <<>>), new, old, 0)
    IN  IF seed.path.oldPos + 1 >= Len(old) /\ seed.newPos + 1 >= Len(new)
        THEN <<[count |-> Len(new), added |-> FALSE, removed |-> FALSE]>>
        ELSE execEditLength(old, new, 1, -1,
                            [d \in (-(n + 1))..(n + 1) |->
                                IF d = 0 THEN seed.path ELSE Undef],
                            -n, n)

RECURSIVE Concat(_, _, _)
Concat(toks, from, count) ==
    IF count = 0 THEN <<>> ELSE toks[from] \o Concat(toks, from + 1, count - 1)

\* buildValues: each component gets the text it spans
RECURSIVE buildValues(_, _, _, _, _, _)
buildValues(comps, k, new, old, newPos, oldPos) ==
    IF k > Len(comps) THEN <<>>
    ELSE LET c == comps[k]
         IN  IF ~c.removed
             THEN <<[value |-> Concat(new, newPos + 1, c.count),
                     added |-> c.added, removed |-> FALSE]>>
                  \o buildValues(comps, k + 1, new, old, newPos + c.count,
                                 IF c.added THEN oldPos ELSE oldPos + c.count)
             ELSE <<[value |-> Concat(old, oldPos + 1, c.count),
                     added |-> FALSE, removed |-> TRUE]>>
                  \o buildValues(comps, k + 1, new, old, newPos, oldPos + c.count)

\* buildValues: a removal that follows an insertion is put before it
RECURSIVE swapAdded(_, _)
swapAdded(parts, k) ==
    IF k > Len(parts) THEN parts
    ELSE IF parts[k].removed /\ k > 1 /\ parts[k - 1].added
    THEN swapAdded([parts EXCEPT ![k - 1] = parts[k], ![k] = parts[k - 1]], k + 1)
    ELSE swapAdded(parts, k + 1)

diffLines(oldText, newTxt) ==
    LET old   == Tokenize(oldText)
        new   == Tokenize(newTxt)
    IN  swapAdded(buildValues(DiffComponents(old, new), 1, new, old, 0, 0), 1)

----------------------------------------------------------------------------
(* The planner *)

Remove(i, c) == [type |-> "remove", index |-> i, count |-> c]
Insert(i, ls) == [type |-> "insert", index |-> i, lines |-> ls]

\* the loop of buildOps over the parts of the alignment; returns [ops, index]
RECURSIVE buildOpsLoop(_, _, _, _)
buildOpsLoop(changes, k, acc, index) ==
    IF k > Len(changes) THEN [ops |-> acc, index |-> index]
    ELSE LET part == changes[k]
             ls   == splitLines(part.value)
         IN  IF part.added
             THEN buildOpsLoop(changes, k + 1,
                      IF Len(ls) > 0 THEN Append(acc, Insert(index, ls)) ELSE acc, index)
             ELSE IF part.removed
             THEN buildOpsLoop(changes, k + 1,
                      IF Len(ls) > 0 THEN Append(acc, Remove(index, Len(ls))) ELSE acc,
                      index + Len(ls))
             ELSE buildOpsLoop(changes, k + 1, acc, index + Len(ls))

\* mutant: the cursor is not advanced over a removed run
RECURSIVE buildOpsLoopNoAdvance(_, _, _, _)
buildOpsLoopNoAdvance(changes, k, acc, index) ==
    IF k > Len(changes) THEN [ops |-> acc, index |-> index]
    ELSE LET part == changes[k]
             ls   == splitLines(part.value)
         IN  IF part.added
             THEN buildOpsLoopNoAdvance(changes, k + 1,
                      IF Len(ls) > 0 THEN Append(acc, Insert(index, ls)) ELSE acc, index)
             ELSE IF part.removed
             THEN buildOpsLoopNoAdvance(changes, k + 1,
                      IF Len(ls) > 0 THEN Append(acc, Remove(index, Len(ls))) ELSE acc,
                      index)
             ELSE buildOpsLoopNoAdvance(changes, k + 1, acc, index + Len(ls))

buildOpsNoAdvance(origText, newTxt) ==
    buildOpsLoopNoAdvance(diffLines(origText, newTxt), 1, <<>>, 0).ops

\* client.ts buildOps
buildOps(origText, newTxt) ==
    buildOpsLoop(diffLines(origText, newTxt), 1, <<>>, 0).ops

----------------------------------------------------------------------------
(* Grouping and ordering *)

NewGroup == [removeCount |-> 0, insertLines |-> <<>>]

RECURSIVE groupOpsLoop(_, _, _)
groupOpsLoop(os, k, gs) ==
    IF k > Len(os) THEN gs
    ELSE LET op    == os[k]
             group == IF op.index \in DOMAIN gs THEN gs[op.index] ELSE NewGroup
             g2    == IF op.type = "remove"
                      THEN [group EXCEPT !.removeCount = @ + op.count]
                      ELSE [group EXCEPT !.insertLines = @ \o op.lines]
         IN  groupOpsLoop(os, k + 1,
                 [i \in (DOMAIN gs) \cup {op.index} |-> IF i = op.index THEN g2 ELSE gs[i]])

\* mutant: a fresh group for every operation, the last one of an index wins
groupOpsLastWins(os) ==
    [i \in {os[k].index : k \in 1..Len(os)} |->
        LET last == CHOOSE k \in 1..Len(os) :
                        os[k].index = i /\ \A j \in (k + 1)..Len(os) : os[j].index # i
        IN  IF os[last].type = "remove"
            THEN [removeCount |-> os[last].count, insertLines |-> <<>>]
            ELSE [removeCount |-> 0, insertLines |-> os[last].lines]]

\* client.ts groupOps: anchor index -> OpGroup
groupOps(os) == groupOpsLoop(os, 1, <<>>)

RECURSIVE SortDesc(_)
SortDesc(S) ==
    IF S = {} THEN <<>>
    ELSE LET m == CHOOSE x \in S : \A y \in S : y <= x
         IN  <<m>> \o SortDesc(S \ {m})

\* mutant: the groups taken in ascending anchor order
sortedIndicesAscending(gs) ==
    LET desc == SortDesc(DOMAIN gs)
    IN  [i \in 1..Len(desc) |-> desc[Len(desc) + 1 - i]]

\* applyOps: [...groups.keys()].sort((a, b) => b - a)
sortedIndices(gs) == SortDesc(DOMAIN gs)

----------------------------------------------------------------------------
(* The slow path against the live document *)

NoInfo == [id |-> NoId, text |-> <<>>]

\* lines[k] of the snapshot, k counted from 0; undefined outside the array
InfoAt(ls, k) == IF k >= 0 /\ k < Len(ls) THEN ls[k + 1] ELSE NoInfo

\* Playwright hasText: the element's text contains the given text
Contains(hay, needle) ==
    \E s \in 0..(Len(hay) - Len(needle)) : SubSeq(hay, s + 1, s + Len(needle)) = needle

\* loc.first(): the first of the matching positions, 0 when none matches
FirstPos(S) ==
    IF S = {} THEN 0 ELSE CHOOSE p \in S : \A q \in S : p <= q

\* a Playwright locator: the strategy and its key; "none" when findLine
\* throws the Error 'Line not found'
Locator(by, id, index, text) == [by |-> by, id |-> id, index |-> index, text |-> text]
NoLocator == Locator("none", NoId, 0, <<>>)

IdSelectors == 5     \* selectors findLine tries for a line id

\* mutant: the text is consulted before the id and the ordinal index
nextProbeTextFirst(info, k) ==
    LET rest == IF info.id # NoId THEN 1 ELSE IdSelectors + 1
    IN  IF k = 0 THEN (IF info.text # <<>> THEN IdSelectors + 2 ELSE rest)
        ELSE IF k = IdSelectors + 2 THEN rest
        ELSE IF k < IdSelectors THEN k + 1
        ELSE IF k = IdSelectors THEN IdSelectors + 1
        ELSE 0

\* the count() read findLine makes after read k (0: none made yet): the id
\* selectors when the line has an id, then the ordinal index, then the text
\* when the line has one; 0 when no read is left
nextProbe(info, k) ==
    IF k < IdSelectors /\ info.id # NoId THEN k + 1
    ELSE IF k < IdSelectors + 1 THEN IdSelectors + 1
    ELSE IF k = IdSelectors + 1 /\ info.text # <<>> THEN IdSelectors + 2
    ELSE 0

\* read k of findLine against the live document d: the locator when its
\* count() is positive, NoLocator otherwise.  The line elements carry their
\* id as id="L<id>", which the first two selectors name; no element carries
\* the data-line-id, data-id or data-lineid attribute of the other three.
probeLocator(d, info, index, k) ==
    LET byId   == {p \in 1..Len(d) : d[p].id = info.id}
        byText == {p \in 1..Len(d) : Contains(d[p].text, info.text)}
    IN  IF k <= IdSelectors
        THEN IF k <= 2 /\ byId # {} THEN Locator("id", info.id, 0, <<>>) ELSE NoLocator
        ELSE IF k = IdSelectors + 1
        THEN IF index >= 0 /\ index < Len(d) THEN Locator("index", NoId, index, <<>>)
             ELSE NoLocator
        ELSE IF byText # {} THEN Locator("text", NoId, 0, info.text) ELSE NoLocator

\* the reads of findLine after read k, all against the same document d
RECURSIVE findFrom(_, _, _, _)
findFrom(d, info, index, k) ==
    LET n == nextProbe(info, k)
    IN  IF n = 0 THEN NoLocator
        ELSE IF probeLocator(d, info, index, n) # NoLocator
             THEN probeLocator(d, info, index, n)
             ELSE findFrom(d, info, index, n)

\* the locator findLine returns against a document d that does not change
\* while it reads: the first strategy whose count() is positive
findLocator(d, info, index) == findFrom(d, info, index, 0)

\* the element a locator stands for when an action is made on it: locators
\* are resolved anew against the live document d; 0 when no element matches
\* (the action waits and ends in a TimeoutError)
resolve(d, t) ==
    CASE t.by = "id"    -> FirstPos({p \in 1..Len(d) : d[p].id = t.id})
      [] t.by = "index" -> IF t.index < Len(d) THEN t.index + 1 ELSE 0
      [] t.by = "text"  -> FirstPos({p \in 1..Len(d) : Contains(d[p].text, t.text)})
      [] OTHER          -> 0

\* client.ts findLine: position (from 1) of the resolved element in the live
\* document d, 0 when every strategy fails (the Error 'Line not found')
findLine(d, info, index) == resolve(d, findLocator(d, info, index))

RemoveAt(d, p) == SubSeq(d, 1, p - 1) \o SubSeq(d, p + 1, Len(d))

\* fresh line elements for typed lines
NewLines(ls, firstId) == [i \in 1..Len(ls) |-> [id |-> firstId + i - 1, text |-> ls[i]]]

\* position (from 1) of the line element with the keyboard focus, 0 when the
\* element is in the document no more: keys pressed then change nothing
FocusPos(d, f) == FirstPos({p \in 1..Len(d) : f # NoId /\ d[p].id = f})

\* Backspace on the selected content of the focused line: the line is emptied
pressBackspaceOnSelection(d, f) ==
    IF FocusPos(d, f) = 0 THEN d
    ELSE [d EXCEPT ![FocusPos(d, f)].text = <<>>]

\* Backspace on the emptied focused line: the line is removed
pressBackspaceOnEmpty(d, f) ==
    IF FocusPos(d, f) = 0 THEN d ELSE RemoveAt(d, FocusPos(d, f))

\* the line that has the focus once the focused line is removed
focusAfterRemoval(d, f) ==
    IF FocusPos(d, f) <= 1 THEN NoId ELSE d[FocusPos(d, f) - 1].id

\* Enter with the cursor at the start (the new empty line comes above the
\* focused line) or at the end (below it); the cursor is on the new line
pressEnter(d, f, atStart, newId) ==
    LET p == FocusPos(d, f)
        e == <<[id |-> newId, text |-> <<>>]>>
    IN  IF p = 0 THEN d
        ELSE IF atStart THEN SubSeq(d, 1, p - 1) \o e \o SubSeq(d, p, Len(d))
        ELSE SubSeq(d, 1, p) \o e \o SubSeq(d, p + 1, Len(d))

\* keyboard.insertText(ins.join('\n')) on the focused empty line: the first
\* line is typed into it, every further line is a new line below
insertText(d, f, ins, firstId) ==
    LET p == FocusPos(d, f)
    IN  IF p = 0 THEN d
        ELSE SubSeq(d, 1, p - 1)
             \o <<[id |-> d[p].id, text |-> d[p].text \o ins[1]]>>
             \o NewLines(Tail(ins), firstId)
             \o SubSeq(d, p + 1, Len(d))

\* mutant: no special case for index 0
insertAnchorGeneralOnly(index, ls, removedCount) ==
    [atStart |-> FALSE, anchorIndex |-> Max(0, index - 1)]

\* the anchor insertLines resolves: [atStart, anchorIndex]
insertAnchor(index, ls, removedCount) ==
    IF index = 0 /\ Min(index + removedCount, Len(ls) - 1) >= 0
    THEN [atStart |-> TRUE, anchorIndex |-> Min(index + removedCount, Len(ls) - 1)]
    ELSE [atStart |-> FALSE, anchorIndex |-> Max(0, index - 1)]

\* the arguments of the findLine call of deleteLines (iteration i) or, the
\* removals done, of insertLines: [info, index]
findArgs(index, ls, removeCount, i) ==
    IF i < removeCount
    THEN [info |-> InfoAt(ls, index + i), index |-> index]
    ELSE LET a == insertAnchor(index, ls, removeCount)
         IN  [info |-> InfoAt(ls, a.anchorIndex), index |-> a.anchorIndex]


----------------------------------------------------------------------------
(* applyPatch of the diff package (release 5) for a patch of one hunk       *)

MaxHunk == 2         \* longest hunk of a patch

Failed == <<"false">>   \* applyPatch(...) === false
Unread == <<"unread">>  \* afterText before the verification read
NotFetched == 0 - 1     \* latest.updated before the staleness re-fetch

Tags == {" ", "-", "+"}
HunkLine(tag, content) == [op |-> tag, content |-> content]

RECURSIVE SideOf(_, _, _)
SideOf(hunk, k, tags) ==
    IF k > Len(hunk) THEN <<>>
    ELSE (IF hunk[k].op \in tags THEN <<hunk[k].content>> ELSE <<>>)
         \o SideOf(hunk, k + 1, tags)

OldSide(hunk) == SideOf(hunk, 1, {" ", "-"})
NewSide(hunk) == SideOf(hunk, 1, {" ", "+"})

\* lines[toPos] of applyPatch, toPos counted from 0; <<"undefined">> past
\* the end
LineAt(ls, toPos) == IF toPos >= 0 /\ toPos < Len(ls) THEN ls[toPos + 1] ELSE <<"undefined">>

\* distanceIterator: the stated position first, then outwards, forwards first
Rank(p, start) == IF p >= start THEN 2 * (p - start) - 1 ELSE 2 * (start - p)

\* the positions distanceIterator gives between minLine = 0 and maxLine,
\* after the stated one
Positions(start, maxLine) ==
    {start} \cup {q \in 0..Max(maxLine, start) : (q > start => q <= maxLine)}

\* The fuzz factor bounds the context and removed lines that differ from the
\* source, counted in one errorCount that is never reset between the
\* positions tried; lines keep their place.
\* hunkFits at toPos from hunk line k on: [fits, errorCount]
RECURSIVE hunkFits(_, _, _, _, _, _)
hunkFits(ls, hunk, toPos, k, errorCount, fuzz) ==
    IF k > Len(hunk) THEN [fits |-> TRUE, errorCount |-> errorCount]
    ELSE IF hunk[k].op = "+"
    THEN hunkFits(ls, hunk, toPos, k + 1, errorCount, fuzz)
    ELSE IF LineAt(ls, toPos) = hunk[k].content
    THEN hunkFits(ls, hunk, toPos + 1, k + 1, errorCount, fuzz)
    ELSE IF errorCount + 1 > fuzz
    THEN [fits |-> FALSE, errorCount |-> errorCount + 1]
    ELSE hunkFits(ls, hunk, toPos + 1, k + 1, errorCount + 1, fuzz)

\* the positions of distanceIterator in the order it gives them
RECURSIVE SortByRank(_, _)
SortByRank(S, start) ==
    IF S = {} THEN <<>>
    ELSE LET q == CHOOSE x \in S : \A y \in S : Rank(x, start) <= Rank(y, start)
         IN  <<q>> \o SortByRank(S \ {q}, start)

\* the search for the place of a hunk: the first position of tries, from
\* the i-th on, where the hunk fits; -1 when there is none
RECURSIVE placeOfHunk(_, _, _, _, _, _)
placeOfHunk(ls, hunk, tries, i, errorCount, fuzz) ==
    IF i > Len(tries) THEN 0 - 1
    ELSE LET r == hunkFits(ls, hunk, tries[i], 1, errorCount, fuzz)
         IN  IF r.fits THEN tries[i]
             ELSE placeOfHunk(ls, hunk, tries, i + 1, r.errorCount, fuzz)

\* Array.prototype.splice on the lines: an index past the end is the end
SpliceOut(ls, toPos) ==
    IF toPos < Len(ls) THEN SubSeq(ls, 1, toPos) \o SubSeq(ls, toPos + 2, Len(ls)) ELSE ls
SpliceIn(ls, toPos, content) ==
    LET at == Min(toPos, Len(ls))
    IN  SubSeq(ls, 1, at) \o <<content>> \o SubSeq(ls, at + 1, Len(ls))

\* the lines of a placed hunk are applied one by one
RECURSIVE spliceHunk(_, _, _, _)
spliceHunk(ls, hunk, k, toPos) ==
    IF k > Len(hunk) THEN ls
    ELSE CASE hunk[k].op = "-" -> spliceHunk(SpliceOut(ls, toPos), hunk, k + 1, toPos)
           [] hunk[k].op = "+" ->
                spliceHunk(SpliceIn(ls, toPos, hunk[k].content), hunk, k + 1, toPos + 1)
           [] OTHER -> spliceHunk(ls, hunk, k + 1, toPos + 1)

\* applyPatch of the package
applyPatch(source, p, fuzz) ==
    IF p.hunk = <<>> THEN source
    ELSE
      LET ls      == SplitNL(source)
          start   == p.oldStart - 1
          maxLine == Len(ls) - Len(OldSide(p.hunk))
          toPos   == placeOfHunk(ls, p.hunk, SortByRank(Positions(start, maxLine), start),
                              1, 0, fuzz)
      IN  IF toPos < 0 THEN Failed
          ELSE JoinNL(spliceHunk(ls, p.hunk, 1, toPos))

----------------------------------------------------------------------------
(* The fast path: the script tryInternalPatch evaluates in the page *)

UpdateLine(text, i) == [kind |-> "updateLine", text |-> text, index |-> i]
InsertLine(text, i) == [kind |-> "insertLine", text |-> text, index |-> i]

RECURSIVE overlapCalls(_, _, _, _)
overlapCalls(current, newLines, i, min) ==
    IF i >= min THEN <<>>
    ELSE (IF newLines[i + 1] # current[i + 1]
          THEN <<UpdateLine(newLines[i + 1], i)>> ELSE <<>>)
         \o overlapCalls(current, newLines, i + 1, min)

\* mutant: excess trailing lines are left as they are
fastCallsNoBlanking(current, newLines) ==
    LET oldLen == Len(current)
        newLen == Len(newLines)
    IN  overlapCalls(current, newLines, 0, Min(oldLen, newLen))
        \o (IF newLen > oldLen
            THEN [k \in 1..(newLen - oldLen) |-> InsertLine(newLines[oldLen + k], oldLen + k - 1)]
            ELSE <<>>)

\* the calls to sb.Page the script issues, in order
fastCalls(current, newLines) ==
    LET oldLen == Len(current)
        newLen == Len(newLines)
    IN  overlapCalls(current, newLines, 0, Min(oldLen, newLen))
        \o (IF newLen > oldLen
            THEN [k \in 1..(newLen - oldLen) |-> InsertLine(newLines[oldLen + k], oldLen + k - 1)]
            ELSE IF oldLen > newLen
            THEN [k \in 1..(oldLen - newLen) |-> UpdateLine(<<>>, oldLen - k)]
            ELSE <<>>)

\* the effect of one call on the live document
applyCall(d, call, id) ==
    IF call.kind = "updateLine"
    THEN IF call.index < Len(d) THEN [d EXCEPT ![call.index + 1].text = call.text] ELSE d
    ELSE SubSeq(d, 1, Min(call.index, Len(d))) \o <<[id |-> id, text |-> call.text]>>
         \o SubSeq(d, Min(call.index, Len(d)) + 1, Len(d))

RECURSIVE applyCalls(_, _, _, _)
applyCalls(d, calls, n, id) ==
    IF n = 0 THEN d
    ELSE applyCall(applyCalls(d, calls, n - 1, id), calls[n], id + n - 1)

\* mutant: no try/catch around page.evaluate
tryInternalPatchUncaught(c) ==
    IF c = "present" THEN "true" ELSE IF c = "throws" THEN "raise" ELSE "false"

\* what tryInternalPatch gives patch for a bridge that is absent, present or
\* throwing: the catch turns a throw into false
tryInternalPatchResult(c) == IF c = "present" THEN "true" ELSE "false"

----------------------------------------------------------------------------
(* Decisions of ScrapboxClient.patch *)

NoFuzz == 0 - 1      \* opts.fuzz undefined

\* mutant: opts.fuzz is not passed on
fuzzFactorAlwaysZero(o) == 0

\* fuzzFactor: opts.fuzz ?? 0
fuzzFactor(o) == IF o.fuzz = NoFuzz THEN 0 ELSE o.fuzz

\* mutant: dryRun is not consulted
afterDiffIgnoringDryRun(o, text) ==
    IF text = Failed THEN "PatchApplyFailed"
    ELSE IF o.checkUpdated THEN "check"
    ELSE "plan"

\* after applyPatch: throw, return the text (dry run), re-fetch, or plan
afterDiff(o, text) ==
    IF text = Failed THEN "PatchApplyFailed"
    ELSE IF o.dryRun THEN "return"
    ELSE IF o.checkUpdated THEN "check"
    ELSE "plan"

\* mutant: the re-fetched token is not compared
neverStale(latestUpdated, base) == FALSE

\* mutant: every re-fetch is taken for a mismatch
alwaysStale(latestUpdated, base) == TRUE

\* latest.updated !== baseUpdated
isStale(latestUpdated, base) == latestUpdated # base

\* mutant: no early return on an empty operation list
neverNothingToDo(os) == FALSE

\* ops.length === 0
nothingToDo(os) == Len(os) = 0

\* mutant: the re-read text is not compared
verifyNeverFails(after, target) == FALSE

\* the text ends in a line separator
EndsInNL(text) == text # <<>> /\ text[Len(text)] = NL

\* mutant: the comparison ignores line separators at the end of the texts
RECURSIVE StripNL(_)
StripNL(text) == IF EndsInNL(text) THEN StripNL(SubSeq(text, 1, Len(text) - 1)) ELSE text
verifyFailsTrimmed(after, target) == StripNL(after) # StripNL(target)

\* afterText !== newText
verifyFails(after, target) == after # target

----------------------------------------------------------------------------
(* Actions *)

\* mutant: an error does not end the invocation, the page is closed and the
\* verification read made
FailAndGoOn(kind) ==
    /\ pc' = "applied"
    /\ result' = kind

\* throw new Error(...): the invocation ends with the error
Fail(kind) ==
    /\ pc' = "done"
    /\ result' = kind

Return(kind) ==
    /\ pc' = "done"
    /\ result' = kind

\* initial readJson, parseFirstPatch, applyPatch, the dry-run return
Start ==
    /\ pc = "start"
    /\ lines' = doc
    /\ baseUpdated' = updated
    /\ originalText' = linesToText(doc)
    /\ newText' = applyPatch(originalText', patch, fuzzFactor(opts))
    /\ LET next == afterDiff(opts, newText')
       IN  CASE next = "PatchApplyFailed" -> Fail(next) /\ UNCHANGED returned
             [] next = "return" -> Return("text") /\ returned' = newText'
             [] OTHER -> pc' = next /\ UNCHANGED <<result, returned>>
    /\ UNCHANGED <<doc, nextId, cap, seenLen, latest, ops, internal, pageOpen, fastMuts,
                   slowMuts, envVars, inVars, app, loopVars, afterText, located>>

\* the staleness re-fetch
CheckUpdated ==
    /\ pc = "check"
    /\ latest' = updated
    /\ IF isStale(latest', baseUpdated)
       THEN Fail("ConcurrentModification")
       ELSE pc' = "plan" /\ result' = result
    /\ UNCHANGED <<doc, nextId, cap, seenLen, ops, internal, pageOpen, fastMuts, slowMuts,
                   envVars, inVars, app, readVars, loopVars, endVars>>

\* buildOps and the early return
Plan ==
    /\ pc = "plan"
    /\ ops' = buildOps(originalText, newText)
    /\ IF nothingToDo(ops')
       THEN Return("void")
       ELSE pc' = "open" /\ result' = result
    /\ UNCHANGED <<doc, nextId, cap, seenLen, latest, internal, pageOpen, fastMuts, slowMuts,
                   envVars, inVars, app, readVars, loopVars, endVars>>

\* ctx.newPage()
NewPage ==
    /\ pc = "open"
    /\ pageOpen' = TRUE
    /\ pc' = "goto"
    /\ UNCHANGED <<doc, nextId, cap, seenLen, latest, ops, internal, result, fastMuts, slowMuts,
                   envVars, inVars, app, readVars, loopVars, endVars>>

\* page.goto(url), until the content is loaded
Goto ==
    /\ pc = "goto"
    /\ pc' = "selector"
    /\ UNCHANGED <<doc, nextId, cap, seenLen, latest, ops, internal, pageOpen, result, fastMuts, slowMuts,
                   envVars, inVars, app, readVars, loopVars, endVars>>

\* opts.waitMs: not given or 0, or a time to wait
WaitMs == {0, 1}

\* page.waitForSelector('#editor .line', { state: 'attached' }): resolves when
\* the editor has a line element and times out when it has none; then the
\* choice of waitForTimeout, on opts.waitMs, which is drawn here, where patch
\* reads it
WaitForSelector ==
    /\ pc = "selector"
    /\ IF Len(doc) = 0
       THEN Fail("SelectorTimeout")
       ELSE /\ \E waitMs \in WaitMs : pc' = IF waitMs > 0 THEN "settle" ELSE "fast"
            /\ result' = result
    /\ UNCHANGED <<doc, nextId, cap, seenLen, latest, ops, internal, pageOpen, fastMuts, slowMuts,
                   envVars, inVars, app, readVars, loopVars, endVars>>

\* page.waitForTimeout(opts.waitMs)
WaitForTimeout ==
    /\ pc = "settle"
    /\ pc' = "fast"
    /\ UNCHANGED <<doc, nextId, cap, seenLen, latest, ops, internal, pageOpen, result, fastMuts, slowMuts,
                   envVars, inVars, app, readVars, loopVars, endVars>>

\* tryInternalPatch, one page.evaluate.  A throwing bridge throws after n of the script's calls (n = all of them:
\* waitForSave throws).
TryInternalPatch ==
    /\ pc = "fast"
    /\ \E c \in {"absent", "present", "throws"} :
         LET calls == fastCalls(TextsOf(doc), splitLines(newText))
         IN  \E n \in 0..Len(calls) :
               /\ c = "absent" => n = 0
               /\ c = "present" => n = Len(calls)
               /\ cap' = c
               /\ seenLen' = IF c = "absent" THEN seenLen ELSE Len(doc)
               /\ doc' = applyCalls(doc, calls, n, nextId)
               /\ nextId' = nextId + n
               /\ fastMuts' = fastMuts + n
               /\ LET r == tryInternalPatchResult(c)
                  IN  CASE r = "true" ->
                             /\ internal' = TRUE
                             /\ pc' = "applied"
                             /\ UNCHANGED <<loopVars, result>>
                        [] r = "false" ->
                             /\ internal' = FALSE
                             /\ pc' = "editor"
                             /\ UNCHANGED <<loopVars, result>>
                        [] OTHER ->
                             /\ Fail("FastPathError")
                             /\ UNCHANGED <<loopVars, internal>>
    /\ UNCHANGED <<latest, ops, pageOpen, slowMuts, envVars, inVars, app, readVars, endVars>>

\* page.click('#editor'), then the head of applyOps: groupOps and the
\* descending order
ClickEditor ==
    /\ pc = "editor"
    /\ groups' = groupOps(ops)
    /\ indices' = sortedIndices(groups')
    /\ delDone' = 0
    /\ pc' = IF indices' = <<>> THEN "applied" ELSE "slow"
    /\ UNCHANGED <<doc, nextId, cap, seenLen, latest, ops, internal, pageOpen, result, fastMuts,
                   slowMuts, probe, locator, focus, envVars, inVars, app, readVars, endVars>>

\* the positions of applyOps: one before each awaited call of the page
SlowPcs == {"slow", "scroll", "count", "click", "select", "empty", "remove",
            "move", "enter", "type", "wait"}

HeadIndex == indices[1]
HeadGroup == groups[HeadIndex]

\* the head group is at a line to remove (deleteLines), or at its insertLines
Deleting == delDone < HeadGroup.removeCount

\* where applyOps stands after the head group is finished
GroupDone ==
    /\ indices' = Tail(indices)
    /\ delDone' = 0
    /\ pc' = IF Len(indices) = 1 THEN "applied" ELSE "slow"

\* one count() read of findLine, for the next iteration of deleteLines or for
\* insertLines: a positive count gives the locator the round trips that
\* follow act upon, the last read without a match throws 'Line not found'
SlowFind ==
    /\ pc = "slow"
    /\ indices # <<>>
    /\ LET a == findArgs(HeadIndex, lines, HeadGroup.removeCount, delDone)
           n == nextProbe(a.info, probe)
           t == probeLocator(doc, a.info, a.index, n)
       IN  IF t # NoLocator
           THEN pc' = "scroll" /\ locator' = t /\ probe' = 0 /\ result' = result
           ELSE IF nextProbe(a.info, n) = 0
           THEN Fail("LineNotFound") /\ probe' = n /\ locator' = locator
           ELSE pc' = pc /\ probe' = n /\ locator' = locator /\ result' = result
    /\ UNCHANGED <<doc, nextId, cap, seenLen, latest, ops, internal, pageOpen, fastMuts, slowMuts,
                   groups, indices, delDone, focus, envVars, inVars, app, readVars, endVars>>

\* line.scrollIntoViewIfNeeded(): a locator that stands for no element any
\* more times out
SlowScroll ==
    /\ pc = "scroll"
    /\ IF resolve(doc, locator) = 0
       THEN Fail("TimeoutError")
       ELSE pc' = "count" /\ result' = result
    /\ UNCHANGED <<doc, nextId, cap, seenLen, latest, ops, internal, pageOpen, fastMuts, slowMuts,
                   loopVars, envVars, inVars, app, readVars, endVars>>

\* focusLine: the count() of the line's .text, which every line element has;
\* with or without it the click that follows is on the line
SlowCount ==
    /\ pc = "count"
    /\ pc' = "click"
    /\ UNCHANGED <<doc, nextId, cap, seenLen, latest, ops, internal, pageOpen, result, fastMuts,
                   slowMuts, loopVars, envVars, inVars, app, readVars, endVars>>

\* focusLine: the click, which gives the focus to the element the locator
\* stands for now
SlowClick ==
    /\ pc = "click"
    /\ IF resolve(doc, locator) = 0
       THEN Fail("TimeoutError") /\ focus' = focus
       ELSE /\ focus' = doc[resolve(doc, locator)].id
            /\ pc' = IF Deleting THEN "select" ELSE "move"
            /\ result' = result
    /\ UNCHANGED <<doc, nextId, cap, seenLen, latest, ops, internal, pageOpen, fastMuts, slowMuts,
                   groups, indices, delDone, probe, locator, envVars, inVars, app, readVars,
                   endVars>>

\* deleteLines: selectAll, the press of Control+A or Meta+A
SlowSelect ==
    /\ pc = "select"
    /\ pc' = "empty"
    /\ UNCHANGED <<doc, nextId, cap, seenLen, latest, ops, internal, pageOpen, result, fastMuts,
                   slowMuts, loopVars, envVars, inVars, app, readVars, endVars>>

\* deleteLines: the first Backspace
SlowEmpty ==
    /\ pc = "empty"
    /\ doc' = pressBackspaceOnSelection(doc, focus)
    /\ pc' = "remove"
    /\ UNCHANGED <<nextId, cap, seenLen, latest, ops, internal, pageOpen, result, fastMuts,
                   slowMuts, loopVars, envVars, inVars, app, readVars, endVars>>

\* deleteLines: the second Backspace
SlowDelete ==
    /\ pc = "remove"
    /\ doc' = pressBackspaceOnEmpty(doc, focus)
    /\ focus' = focusAfterRemoval(doc, focus)
    /\ slowMuts' = IF FocusPos(doc, focus) = 0 THEN slowMuts ELSE slowMuts + 1
    /\ pc' = "wait"
    /\ UNCHANGED <<nextId, cap, seenLen, latest, ops, internal, pageOpen, result, fastMuts,
                   groups, indices, delDone, probe, locator, envVars, inVars, app, readVars,
                   endVars>>

\* insertLines: moveToStart (Home) or moveToEnd (End)
SlowMove ==
    /\ pc = "move"
    /\ pc' = "enter"
    /\ UNCHANGED <<doc, nextId, cap, seenLen, latest, ops, internal, pageOpen, result, fastMuts,
                   slowMuts, loopVars, envVars, inVars, app, readVars, endVars>>

\* insertLines: the press of Enter
SlowEnter ==
    /\ pc = "enter"
    /\ LET a == insertAnchor(HeadIndex, lines, HeadGroup.removeCount)
       IN  doc' = pressEnter(doc, focus, a.atStart, nextId)
    /\ IF FocusPos(doc, focus) = 0
       THEN UNCHANGED <<focus, nextId>>
       ELSE focus' = nextId /\ nextId' = nextId + 1
    /\ pc' = "type"
    /\ UNCHANGED <<cap, seenLen, latest, ops, internal, pageOpen, result, fastMuts, slowMuts,
                   groups, indices, delDone, probe, locator, envVars, inVars, app, readVars,
                   endVars>>

\* insertLines: keyboard.insertText of the joined lines
SlowInsert ==
    /\ pc = "type"
    /\ doc' = insertText(doc, focus, HeadGroup.insertLines, nextId)
    /\ IF FocusPos(doc, focus) = 0
       THEN UNCHANGED <<focus, nextId, slowMuts>>
       ELSE /\ focus' = IF Len(HeadGroup.insertLines) = 1 THEN focus
                        ELSE nextId + Len(HeadGroup.insertLines) - 2
            /\ nextId' = nextId + Len(HeadGroup.insertLines) - 1
            /\ slowMuts' = slowMuts + 1
    /\ pc' = "wait"
    /\ UNCHANGED <<cap, seenLen, latest, ops, internal, pageOpen, result, fastMuts,
                   groups, indices, delDone, probe, locator, envVars, inVars, app, readVars,
                   endVars>>

\* waitForTimeout(30), which ends the iteration of deleteLines or insertLines
SlowWait ==
    /\ pc = "wait"
    /\ locator' = NoLocator
    /\ IF Deleting /\ ~(delDone + 1 = HeadGroup.removeCount /\ HeadGroup.insertLines = <<>>)
       THEN /\ delDone' = delDone + 1
            /\ pc' = "slow"
            /\ UNCHANGED indices
       ELSE GroupDone
    /\ UNCHANGED <<doc, nextId, cap, seenLen, latest, ops, internal, pageOpen, result, fastMuts,
                   slowMuts, groups, probe, focus, envVars, inVars, app, readVars, endVars>>

\* page.close()
ClosePage ==
    /\ pc = "applied"
    /\ pageOpen' = FALSE
    /\ pc' = "verify"
    /\ UNCHANGED <<doc, nextId, cap, seenLen, latest, ops, internal, result, fastMuts, slowMuts,
                   envVars, inVars, app, readVars, loopVars, endVars>>

\* ScrapboxClient.close(), which the caller makes once patch has returned or
\* thrown: the context is closed and with it a page an error left open
ClientClose ==
    /\ pc = "done"
    /\ pageOpen
    /\ pageOpen' = FALSE
    /\ UNCHANGED <<doc, nextId, pc, cap, seenLen, latest, ops, internal, result, fastMuts,
                   slowMuts, envVars, inVars, app, readVars, loopVars, endVars>>

\* the verification read and comparison
Verify ==
    /\ pc = "verify"
    /\ afterText' = linesToText(doc)
    /\ IF verifyFails(afterText', newText)
       THEN Fail("VerificationFailed")
       ELSE Return("void")
    /\ UNCHANGED <<doc, nextId, cap, seenLen, latest, ops, internal, pageOpen, fastMuts, slowMuts,
                   envVars, inVars, app, readVars, loopVars, returned, located>>

----------------------------------------------------------------------------
(* Other writers of the document: no lock is held across the invocation *)

MaxWrites == 1       \* modifications by others beside one invocation

Running == pc \notin {"start", "done"}

\* the modifications made or under way: an append that has opened its page
\* is counted, it has its goto to make
WritesBegun == writes + (IF app = "goto" THEN 1 ELSE 0)

\* another writer removes the last line of the document
WriterDelete ==
    /\ Running
    /\ WritesBegun < MaxWrites
    /\ Len(doc) > 1
    /\ doc' = SubSeq(doc, 1, Len(doc) - 1)
    /\ updated' = updated + 1
    /\ writes' = writes + 1
    /\ UNCHANGED <<nextId, pc, cap, seenLen, latest, ops, internal, pageOpen, result, fastMuts,
                   slowMuts, inVars, app, readVars, loopVars, endVars>>

----------------------------------------------------------------------------
(* ScrapboxClient.append: one invocation, made by another process while    *)
(* the patch invocation runs.  It opens a page of its own on the document  *)
(* with the body in the address, upon which the service adds the body's    *)
(* lines at the end of the document.  An append that lands before the      *)
(* first read of patch gives a document of Init; the document is followed  *)
(* until patch has ended.                                                  *)

\* the body given to append: a text of several lines
AppendBodies == {<<"a", NL, "a">>}
\* waitMs of append: 0, or the default
AppendWaits == {0, 1500}

\* append(pageTitle, body, waitMs): ctx.newPage()
AppendNewPage ==
    /\ app = "idle"
    /\ Running
    /\ WritesBegun < MaxWrites
    /\ app' = "goto"
    /\ UNCHANGED <<doc, nextId, pc, cap, seenLen, latest, ops, internal, pageOpen, result,
                   fastMuts, slowMuts, envVars, inVars, readVars, loopVars, endVars>>

\* page.goto(url) with the body in the address: the service adds the lines
\* of the body at the end of the document; then the choice of waitForTimeout.
\* body and waitMs, the arguments of the call, are drawn here, where the
\* code first uses them
AppendGoto ==
    /\ app = "goto"
    /\ Running
    /\ \E body \in AppendBodies, waitMs \in AppendWaits :
          /\ doc' = doc \o NewLines(SplitNL(body), nextId)
          /\ nextId' = nextId + Len(SplitNL(body))
          /\ app' = IF waitMs > 0 THEN "wait" ELSE "close"
    /\ updated' = updated + 1
    /\ writes' = writes + 1
    /\ UNCHANGED <<pc, cap, seenLen, latest, ops, internal, pageOpen, result, fastMuts,
                   slowMuts, inVars, readVars, loopVars, endVars>>

\* page.waitForTimeout(waitMs)
AppendWait ==
    /\ app = "wait"
    /\ app' = "close"
    /\ UNCHANGED <<doc, nextId, pc, cap, seenLen, latest, ops, internal, pageOpen, result,
                   fastMuts, slowMuts, envVars, inVars, readVars, loopVars, endVars>>

\* page.close()
AppendClose ==
    /\ app = "close"
    /\ app' = "closed"
    /\ UNCHANGED <<doc, nextId, pc, cap, seenLen, latest, ops, internal, pageOpen, result,
                   fastMuts, slowMuts, envVars, inVars, readVars, loopVars, endVars>>

----------------------------------------------------------------------------
(* The patch invocation against a live document *)

MaxDocLines == 2     \* longest document of the patch invocation

WithIds(ts) == [i \in 1..Len(ts) |-> [id |-> i, text |-> ts[i]]]

Docs == {WithIds(ts) : ts \in SeqsUpTo(LineTexts, MaxDocLines) \ {<<>>}}

Patches ==
    [oldStart : {1},
     hunk : SeqsUpTo({HunkLine(t, c) : t \in Tags, c \in LineTexts}, MaxHunk)]

\* the documents and patches of the invocations other writers run beside:
\* the empty line and one text, which is also the text of the lines append adds
SharedTexts == {<<>>, <<"a">>}

SharedDocs == {WithIds(ts) : ts \in SeqsUpTo(SharedTexts, MaxDocLines) \ {<<>>}}

SharedPatches ==
    [oldStart : {1},
     hunk : SeqsUpTo({HunkLine(t, c) : t \in Tags, c \in SharedTexts}, MaxHunk)]

NoPatch == [oldStart |-> 1, hunk |-> <<>>]
NoOpts == [dryRun |-> FALSE, checkUpdated |-> FALSE, fuzz |-> 0]

\* the locals of an invocation before it reads anything, but ops and the groups
InitLocalsBut ==
    /\ updated = 0 /\ writes = 0 /\ app = "idle"
    /\ cap = "unknown" /\ seenLen = 0
    /\ lines = <<>> /\ baseUpdated = 0 /\ originalText = <<>> /\ newText = <<>>
    /\ latest = NotFetched
    /\ internal = "none"
    /\ delDone = 0 /\ probe = 0 /\ locator = NoLocator /\ focus = NoId
    /\ pageOpen = FALSE
    /\ afterText = Unread /\ result = "none" /\ returned = <<>> /\ located = 0
    /\ fastMuts = 0 /\ slowMuts = 0

InitLocals ==
    /\ InitLocalsBut
    /\ ops = <<>> /\ groups = <<>> /\ indices = <<>>

Init ==
    /\ doc \in SharedDocs
    /\ nextId = Len(doc) + 1
    /\ patch \in SharedPatches
    /\ opts \in [dryRun : BOOLEAN, checkUpdated : BOOLEAN, fuzz : {0}]
    /\ pc = "start"
    /\ InitLocals

Next ==
    \/ Start \/ CheckUpdated \/ Plan
    \/ NewPage \/ Goto \/ WaitForSelector \/ WaitForTimeout
    \/ TryInternalPatch \/ ClickEditor
    \/ SlowFind \/ SlowScroll \/ SlowCount \/ SlowClick \/ SlowSelect \/ SlowEmpty
    \/ SlowDelete \/ SlowMove \/ SlowEnter \/ SlowInsert \/ SlowWait
    \/ ClosePage \/ Verify \/ ClientClose
    \/ WriterDelete
    \/ AppendNewPage \/ AppendGoto \/ AppendWait \/ AppendClose

Spec == Init /\ [][Next]_vars

----------------------------------------------------------------------------
(* The patch invocation with a fuzz factor, the document left to itself:  *)
(* no slow-path step fails then and the invocation leaves no page open.    *)

MaxFuzz == 1         \* largest fuzz factor given to patch

InitFuzz ==
    /\ doc \in Docs
    /\ nextId = Len(doc) + 1
    /\ patch \in Patches
    /\ opts \in [dryRun : BOOLEAN, checkUpdated : {FALSE}, fuzz : {NoFuzz} \cup 0..MaxFuzz]
    /\ pc = "start"
    /\ InitLocals

NextFuzz ==
    \/ Start \/ Plan
    \/ NewPage \/ Goto \/ WaitForSelector \/ WaitForTimeout
    \/ TryInternalPatch \/ ClickEditor
    \/ SlowFind \/ SlowScroll \/ SlowCount \/ SlowClick \/ SlowSelect \/ SlowEmpty
    \/ SlowDelete \/ SlowMove \/ SlowEnter \/ SlowInsert \/ SlowWait
    \/ ClosePage \/ Verify

SpecFuzz == InitFuzz /\ [][NextFuzz]_vars

----------------------------------------------------------------------------
(* Simulation of planning and applying against an in-memory line array:    *)
(* buildOps, then applyOps on a copy of the original lines.                *)

\* the scenarios of the specification's section 8, with their own characters
Scenarios ==
    { <<(<<<<"a">>, <<"b">>, <<"c">>>>), (<<<<"a">>, <<"x">>, <<"c">>>>)>>,
      <<(<<<<"a">>, <<"b">>>>), (<<<<"h">>, <<"a">>, <<"b">>>>)>> }

\* a page has at least its title line; a target may be empty
SimPairs ==
    ((SeqsUpTo(LineTexts, MaxLines) \ {<<>>}) \X SeqsUpTo(LineTexts, MaxLines))
    \cup Scenarios

InitSim ==
    /\ \E pr \in SimPairs :
          /\ doc = WithIds(pr[1])
          /\ lines = WithIds(pr[1])
          /\ originalText = JoinNL(pr[1])
          /\ newText = JoinNL(pr[2])
    /\ nextId = Len(doc) + 1
    /\ updated = 0 /\ writes = 0 /\ app = "idle" /\ baseUpdated = 0 /\ latest = NotFetched
    /\ patch = NoPatch /\ opts = NoOpts
    /\ cap = "unknown" /\ seenLen = 0 /\ internal = "none"
    /\ ops = <<>> /\ groups = <<>> /\ indices = <<>> /\ delDone = 0
    /\ probe = 0 /\ locator = NoLocator /\ focus = NoId
    /\ pageOpen = FALSE
    /\ afterText = Unread /\ result = "none" /\ returned = <<>> /\ located = 0
    /\ fastMuts = 0 /\ slowMuts = 0
    /\ pc = "plan"

\* buildOps, then the head of applyOps: groupOps and the descending order
SimPlan ==
    /\ pc = "plan"
    /\ ops' = buildOps(originalText, newText)
    /\ groups' = groupOps(ops')
    /\ indices' = sortedIndices(groups')
    /\ delDone' = 0
    /\ pc' = IF indices' = <<>> THEN "applied" ELSE "slow"
    /\ UNCHANGED <<probe, locator, focus>>
    /\ UNCHANGED <<doc, nextId, cap, seenLen, latest, internal, pageOpen, result, fastMuts,
                   slowMuts, envVars, inVars, app, readVars, endVars>>

NextSim ==
    \/ SimPlan
    \/ SlowFind \/ SlowScroll \/ SlowCount \/ SlowClick \/ SlowSelect \/ SlowEmpty
    \/ SlowDelete \/ SlowMove \/ SlowEnter \/ SlowInsert \/ SlowWait

SpecSim == InitSim /\ [][NextSim]_vars

----------------------------------------------------------------------------
(* groupOps on operation lists of any order *)

MaxGroupOps == 2     \* longest operation list given to groupOps alone
MaxOpIndex == 1      \* largest anchor index of such a list
MaxOpCount == 2      \* largest count of a remove of such a list

GroupOpSet ==
    {Remove(i, c) : i \in 0..MaxOpIndex, c \in 1..MaxOpCount}
    \cup {Insert(i, ls) : i \in 0..MaxOpIndex,
                          ls \in {<<<<"a">>>>, <<<<"b">>>>, <<<<"a">>, <<"b">>>>}}

InitGroup ==
    /\ ops \in SeqsUpTo(GroupOpSet, MaxGroupOps)
    /\ doc = <<>> /\ nextId = 1 /\ patch = NoPatch /\ opts = NoOpts
    /\ InitLocalsBut
    /\ groups = <<>> /\ indices = <<>>
    /\ pc = "group"

\* groupOps and the order applyOps derives from it
GroupOnly ==
    /\ pc = "group"
    /\ groups' = groupOps(ops)
    /\ indices' = sortedIndices(groups')
    /\ pc' = "grouped"
    /\ UNCHANGED <<doc, nextId, cap, seenLen, latest, ops, internal, pageOpen, result, fastMuts,
                   slowMuts, delDone, probe, locator, focus, envVars, inVars, app, readVars,
                   endVars>>

NextGroup == GroupOnly

SpecGroup == InitGroup /\ [][NextGroup]_vars

----------------------------------------------------------------------------
(* findLine against live documents and references of any kind, read by    *)
(* read                                                                    *)

MaxFindLines == 2    \* longest live document given to findLine alone
MaxFindId == 3       \* largest line id of such a document or reference
MaxFindIndex == 2    \* largest ordinal index of such a reference

FindTexts == LineTexts \cup {<<"a", "b">>}

\* live documents: line elements with distinct ids
FindDocs ==
    {d \in SeqsUpTo([id : 1..MaxFindId, text : FindTexts], MaxFindLines) :
        \A i, j \in 1..Len(d) : i # j => d[i].id # d[j].id}

InitFind ==
    /\ doc \in FindDocs
    /\ lines \in {<<info>> : info \in [id : {NoId} \cup 1..MaxFindId, text : LineTexts]}
    /\ indices \in {<<i>> : i \in 0..MaxFindIndex}
    /\ nextId = MaxFindId + 1 /\ patch = NoPatch /\ opts = NoOpts
    /\ updated = 0 /\ writes = 0 /\ app = "idle" /\ cap = "unknown" /\ seenLen = 0
    /\ baseUpdated = 0 /\ originalText = <<>> /\ newText = <<>>
    /\ latest = NotFetched /\ internal = "none"
    /\ ops = <<>> /\ groups = <<>> /\ delDone = 0
    /\ probe = 0 /\ locator = NoLocator /\ focus = NoId
    /\ pageOpen = TRUE
    /\ afterText = Unread /\ result = "none" /\ returned = <<>> /\ located = 0
    /\ fastMuts = 0 /\ slowMuts = 0
    /\ pc = "find"

\* one count() read of findLine(page, lines[1], indices[1]): a positive count
\* returns the locator, located being the element it stands for then; the
\* last read without a match throws 'Line not found'
FindRead ==
    /\ pc = "find"
    /\ LET n == nextProbe(lines[1], probe)
           t == probeLocator(doc, lines[1], indices[1], n)
       IN  /\ probe' = n
           /\ IF t # NoLocator
              THEN /\ locator' = t
                   /\ located' = resolve(doc, t)
                   /\ Return("line")
              ELSE /\ UNCHANGED <<locator, located>>
                   /\ IF nextProbe(lines[1], n) = 0
                      THEN Fail("LineNotFound")
                      ELSE UNCHANGED <<pc, result>>
    /\ UNCHANGED <<doc, nextId, cap, seenLen, latest, ops, internal, pageOpen, fastMuts, slowMuts,
                   groups, indices, delDone, focus, envVars, inVars, app, readVars, afterText,
                   returned>>

\* other writers act between the reads
NextFind ==
    \/ FindRead
    \/ WriterDelete
    \/ AppendNewPage \/ AppendGoto \/ AppendWait \/ AppendClose

SpecFind == InitFind /\ [][NextFind]_vars

----------------------------------------------------------------------------
(* Properties *)

Orig == TextsOf(lines)            \* the original line sequence
Target == SplitNL(newText)        \* the target line sequence
Mutations == fastMuts + slowMuts  \* mutating actions issued by the invocation

StrictlyDescending(sq) == \A i \in 1..(Len(sq) - 1) : sq[i] > sq[i + 1]
Executed == {j \in DOMAIN groups : \A i \in 1..Len(indices) : indices[i] # j}

\* C1 (checked under SpecSim): planning with buildOps, grouping with groupOps
\* and applying the groups as applyOps does to a copy of the original line
\* array yields exactly the target: the text of the resulting lines is the
\* target text.
C1_PlanApplyReconstructsTarget ==
    pc = "applied" => linesToText(doc) = newText

\* C2: a non-dry-run invocation that performed mutations returns void only if
\* the text re-read after the apply phase equals the target text; whenever
\* the re-read text differs the invocation ends with VerificationFailed,
\* whichever path mutated.
C2_SuccessOnlyIfVerified ==
    (~opts.dryRun /\ Mutations > 0) =>
        /\ (pc = "done" /\ result = "void") => afterText = newText
        /\ (afterText # Unread /\ afterText # newText) =>
               (pc = "done" /\ result = "VerificationFailed")

C2_Witness ==
    /\ pc = "done" /\ result = "void"
    /\ slowMuts > 0 /\ fastMuts = 0
    /\ afterText = newText /\ newText # originalText

\* C3: with dryRun set, patch returns the computed target text and performs
\* no write: no page is opened, neither path runs, no mutation is issued and
\* the live document is the one that was read when the call returns.
C3_DryRunWritesNothing ==
    opts.dryRun =>
        /\ ~pageOpen /\ internal = "none" /\ Mutations = 0
        /\ pc \in {"start", "done"}
        /\ pc = "done" =>
              /\ doc = lines
              /\ \/ result = "PatchApplyFailed" /\ newText = Failed
                 \/ /\ result = "text"
                    /\ returned = newText
                    /\ returned = applyPatch(linesToText(lines), patch, fuzzFactor(opts))
                    /\ returned # Failed

C3_Witness ==
    /\ opts.dryRun /\ pc = "done" /\ result = "text"
    /\ returned # originalText /\ doc = lines

\* C4: with the staleness check enabled and no dry run, a re-fetched revision
\* token that differs from the one of the initial read ends the invocation
\* with ConcurrentModification, and no mutating action has been issued.
C4_StaleEndsBeforeMutation ==
    /\ (opts.checkUpdated /\ ~opts.dryRun /\ latest # NotFetched /\ latest # baseUpdated) =>
           /\ pc = "done" /\ result = "ConcurrentModification"
           /\ Mutations = 0 /\ ~pageOpen /\ internal = "none"
    /\ result = "ConcurrentModification" =>
           (opts.checkUpdated /\ latest # baseUpdated /\ Mutations = 0 /\ ~pageOpen)

C4_Witness ==
    /\ opts.checkUpdated /\ ~opts.dryRun
    /\ latest # NotFetched /\ latest # baseUpdated
    /\ result = "ConcurrentModification"

\* C5: if the computed target text equals the original text, buildOps gives an
\* empty list and patch returns without a mutating action: no page is opened,
\* no fast-path or slow-path step runs, the document is left as it was read.
C5_EqualTextsNoAction ==
    (pc # "start" /\ newText = originalText) =>
        /\ ops = <<>>
        /\ buildOps(originalText, newText) = <<>>
        /\ ~pageOpen /\ internal = "none" /\ Mutations = 0
        /\ pc \in {"check", "plan", "done"}
        /\ pc = "done" => result \in {"void", "text", "ConcurrentModification"}
        /\ writes = 0 => doc = lines

C5_Witness ==
    /\ newText = originalText /\ patch.hunk # <<>>
    /\ ~opts.dryRun /\ pc = "done" /\ result = "void"

\* C6: if the capability is absent or the fast path throws, tryInternalPatch
\* reports false without raising, the slow path then runs, and no error of
\* the fast-path attempt reaches the caller.
C6_FallbackIsSilent ==
    /\ result # "FastPathError"
    /\ cap \in {"absent", "throws"} =>
           /\ internal = FALSE
           /\ \/ pc = "editor"
              \/ pc \in SlowPcs /\ indices # <<>>
              \/ pc \in {"applied", "verify", "done"} /\ indices = <<>>
              \/ result \in {"LineNotFound", "TimeoutError"}
           /\ pc = "done" =>
                  result \in {"void", "LineNotFound", "TimeoutError", "VerificationFailed"}

C6_Witness ==
    /\ cap = "throws" /\ internal = FALSE
    /\ slowMuts > 0 /\ pc = "done" /\ result = "void"

\* C7 (checked under SpecSim): groups execute in strictly descending anchor
\* index, and when a group starts nothing has been changed below its anchor:
\* the live lines at positions 0 .. index+removeCount-1 are the original
\* lines at those positions.
C7_DescendingKeepsPrefix ==
    (pc = "slow" /\ delDone = 0) =>
        /\ StrictlyDescending(indices)
        /\ \A j \in Executed : j > HeadIndex
        /\ \A q \in 1..(HeadIndex + HeadGroup.removeCount) :
               q <= Len(doc) /\ q <= Len(lines) /\ doc[q] = lines[q]

C7_Witness ==
    /\ pc = "slow" /\ delDone = 0
    /\ Executed # {} /\ doc # lines
    /\ HeadIndex > 0 /\ HeadGroup.removeCount > 0

ChangedAt == {k \in 1..Len(Orig) : Orig[k] # Target[k]}
SingleReplace == Len(Orig) = Len(Target) /\ Cardinality(ChangedAt) = 1
ReplacedAt == CHOOSE k \in ChangedAt : TRUE
\* the replaced line and its replacement both differ from the line that
\* follows
FollowedByOther ==
    ReplacedAt < Len(Orig) =>
        /\ Target[ReplacedAt] # Target[ReplacedAt + 1]
        /\ Orig[ReplacedAt] # Orig[ReplacedAt + 1]
\* the replaced line is the last line of the document and is empty
ReplacesEmptyLast == ReplacedAt = Len(Orig) /\ Orig[ReplacedAt] = <<>>
\* the replaced line is the last line of the document and becomes empty
EmptiesLast == ReplacedAt = Len(Orig) /\ Target[ReplacedAt] = <<>>

ScenarioReplace ==
    /\ Orig = <<(<<"a">>), (<<"b">>), (<<"c">>)>>
    /\ Target = <<(<<"a">>), (<<"x">>), (<<"c">>)>>

\* C8 as stated (checked under SpecSim): for original a,b,c with b changed to
\* x the planner emits Remove{index:1,count:1} then Insert{index:1,lines:[x]},
\* both anchored at index 1.
C8_ScenarioSameAnchor ==
    (pc # "plan" /\ ScenarioReplace) =>
        ops = <<Remove(1, 1), Insert(1, <<(<<"x">>)>>)>>

\* C8 amended (checked under SpecSim): replacing the single line at position k
\* (counted from 0) by a line that, like the replaced one, differs from the
\* line after it makes the planner emit exactly Remove{k,1} then
\* Insert{k+1,[new line]}, the insert anchored one past the removed line; the
\* scenario gives Remove{1,1}, Insert{2,[x]}; applying them yields the target.
\* Not so when the replaced line is the last line and it or its replacement
\* is empty: an empty last line replaced by a text gives Insert{k,[new line]}
\* alone and applying leaves the target followed by an empty line; a last
\* line replaced by the empty line gives Remove{k,1} alone and applying
\* leaves the target without its last line.
C8_ReplaceInsertsAfterRemoved ==
    /\ (/\ pc # "plan" /\ SingleReplace /\ FollowedByOther
        /\ ~ReplacesEmptyLast /\ ~EmptiesLast) =>
           /\ ops = <<Remove(ReplacedAt - 1, 1),
                      Insert(ReplacedAt, <<Target[ReplacedAt]>>)>>
           /\ pc = "applied" => TextsOf(doc) = Target
    /\ (pc # "plan" /\ SingleReplace /\ ReplacesEmptyLast) =>
           /\ ops = <<Insert(ReplacedAt - 1, <<Target[ReplacedAt]>>)>>
           /\ pc = "applied" => TextsOf(doc) = Target \o <<(<<>>)>>
    /\ (pc # "plan" /\ SingleReplace /\ EmptiesLast) =>
           /\ ops = <<Remove(ReplacedAt - 1, 1)>>
           /\ pc = "applied" => TextsOf(doc) = SubSeq(Target, 1, Len(Target) - 1)
    /\ (pc # "plan" /\ ScenarioReplace) =>
           ops = <<Remove(1, 1), Insert(2, <<(<<"x">>)>>)>>

C8_Witness ==
    /\ ScenarioReplace /\ pc = "applied"
    /\ TextsOf(doc) = <<(<<"a">>), (<<"x">>), (<<"c">>)>>

Prepended == Len(Target) - Len(Orig)
NewHead == SubSeq(Target, 1, Prepended)
\* the target is the original with lines before it that the original lacks
PrependsNewLines ==
    /\ Prepended > 0
    /\ SubSeq(Target, Prepended + 1, Len(Target)) = Orig
    /\ \A i \in 1..Prepended : \A j \in 1..Len(Orig) : NewHead[i] # Orig[j]

\* C9 (checked under SpecSim): inserting new lines before the first line makes
\* the planner emit Insert{index:0, lines}; the slow path anchors on the
\* original line at index+removeCount (clamped to the last line) with the
\* cursor at its start, and after the insertion the inserted lines directly
\* precede that line: h before a,b gives h,a,b.
C9_InsertAtTopPrecedesAnchor ==
    /\ (pc # "plan" /\ PrependsNewLines) =>
           /\ ops = <<Insert(0, NewHead)>>
           /\ pc = "applied" => TextsOf(doc) = Target
    /\ (pc = "applied" /\ 0 \in DOMAIN groups /\ groups[0].insertLines # <<>>) =>
           LET n == Len(groups[0].insertLines)
               a == Min(groups[0].removeCount, Len(lines) - 1)
           IN  /\ SubSeq(TextsOf(doc), 1, n) = groups[0].insertLines
               /\ n < Len(doc)
               /\ doc[n + 1] = lines[a + 1]

C9_Witness ==
    /\ Orig = <<(<<"a">>), (<<"b">>)>>
    /\ ops = <<Insert(0, <<(<<"h">>)>>)>>
    /\ pc = "applied"
    /\ TextsOf(doc) = <<(<<"h">>), (<<"a">>), (<<"b">>)>>

RECURSIVE SumCounts(_, _, _)
SumCounts(os, k, i) ==
    IF k > Len(os) THEN 0
    ELSE (IF os[k].index = i /\ os[k].type = "remove" THEN os[k].count ELSE 0)
         + SumCounts(os, k + 1, i)

RECURSIVE ConcatInserts(_, _, _)
ConcatInserts(os, k, i) ==
    IF k > Len(os) THEN <<>>
    ELSE (IF os[k].index = i /\ os[k].type = "insert" THEN os[k].lines ELSE <<>>)
         \o ConcatInserts(os, k + 1, i)

\* a remove and an insert that share an anchor, in either order
IsRemoveInsertPair(os) ==
    /\ Len(os) = 2
    /\ os[1].index = os[2].index
    /\ {os[1].type, os[2].type} = {"remove", "insert"}

\* C10 (checked under SpecGroup): a remove and an insert sharing an anchor
\* give the same group {removeCount: c, insertLines: L} in either order; in
\* general a group's removeCount is the sum of its removes' counts and its
\* insertLines the concatenation of its inserts' lines in discovery order.
C10_GroupingSumsAndConcatenates ==
    pc = "grouped" =>
        /\ DOMAIN groups = {ops[k].index : k \in 1..Len(ops)}
        /\ \A i \in DOMAIN groups :
               /\ groups[i].removeCount = SumCounts(ops, 1, i)
               /\ groups[i].insertLines = ConcatInserts(ops, 1, i)
        /\ IsRemoveInsertPair(ops) =>
               LET r == IF ops[1].type = "remove" THEN ops[1] ELSE ops[2]
                   n == IF ops[1].type = "insert" THEN ops[1] ELSE ops[2]
               IN  /\ DOMAIN groups = {r.index}
                   /\ groups[r.index] = [removeCount |-> r.count, insertLines |-> n.lines]

C10_Witness ==
    /\ pc = "grouped"
    /\ ops = <<Insert(1, <<(<<"a">>)>>), Remove(1, 2)>>
    /\ groups[1] = [removeCount |-> 2, insertLines |-> <<(<<"a">>)>>]

BaseLines == SplitNL(originalText)   \* the lines applyPatch matches against
\* position (from 1) on the hunk's old side of hunk line k
OldPosOf(k) == Cardinality({j \in 1..k : patch.hunk[j].op # "+"})
\* the base line that hunk line k meets when the hunk lies at the stated place
MeetsAt(k) == LineAt(BaseLines, patch.oldStart - 1 + OldPosOf(k) - 1)
\* the hunk lines with a tag of tags that differ from the base line they meet
Mismatched(tags) ==
    {k \in 1..Len(patch.hunk) :
        patch.hunk[k].op \in tags /\ MeetsAt(k) # patch.hunk[k].content}
FitsExactlyAt(q) ==
    \A k \in 1..Len(OldSide(patch.hunk)) :
        LineAt(BaseLines, q + k - 1) = OldSide(patch.hunk)[k]
\* the hunk's old side occurs nowhere in the base text
FitsNowhere == patch.hunk # <<>> /\ \A q \in 0..Len(BaseLines) : ~FitsExactlyAt(q)
RejectedBeforeAnyWrite ==
    (pc # "start" /\ opts.fuzz \in {NoFuzz, 0} /\ FitsNowhere) =>
        /\ pc = "done" /\ result = "PatchApplyFailed"
        /\ ~pageOpen /\ internal = "none" /\ Mutations = 0 /\ doc = lines

C12_PathsMutuallyExclusive ==
    (pc \in SlowPcs \/ slowMuts > 0) => fastMuts = 0

\* a step of tryInternalPatch on which the script ran to its end
FastCompletes == pc = "fast" /\ cap' = "present"
DifferingOverlap(old, new) ==
    {i \in 1..Min(Len(old), Len(new)) : old[i] # new[i]}

\* C13 (checked under Spec): a fast-path run that completes on a live
\* document of seenLen lines for a target of newLen lines leaves target line i
\* at every position i < min(seenLen, newLen), with updateLine issued only
\* where the text differed; appends target[seenLen..newLen-1] in order when
\* newLen > seenLen; leaves the lines newLen..seenLen-1 in place with empty text
\* when seenLen > newLen; the document then has max(seenLen, newLen) lines.
C13_FastPathShape ==
    [][FastCompletes =>
        LET old == TextsOf(doc)
            new == splitLines(newText)
            now == TextsOf(doc')
        IN  /\ Len(now) = Max(Len(old), Len(new))
            /\ Len(now) >= Len(old)
            /\ \A i \in 1..Len(new) : now[i] = new[i]
            /\ \A i \in (Len(new) + 1)..Len(old) :
                   now[i] = <<>> /\ doc'[i].id = doc[i].id
            /\ \A i \in 1..Len(old) : doc'[i].id = doc[i].id
            /\ fastMuts' - fastMuts =
                   Cardinality(DifferingOverlap(old, new))
                   + Max(Len(old), Len(new)) - Min(Len(old), Len(new))]_vars

C13_Witness ==
    /\ pc = "applied" /\ cap = "present" /\ writes = 0
    /\ Len(splitLines(newText)) < Len(lines)
    /\ Len(doc) = Len(lines)
    /\ doc[Len(doc)].text = <<>> /\ lines[Len(lines)].text # <<>>

\* the fast path completed, the target having fewer lines than the live
\* document the script found and no line separator at its end
FastShrinks ==
    /\ cap = "present"
    /\ Len(splitLines(newText)) < seenLen
    /\ ~EndsInNL(newText)
\* the target's lines followed by one blank line for every excess line
LeftByFastPath ==
    splitLines(newText) \o [i \in 1..(seenLen - Len(splitLines(newText))) |-> <<>>]
\* the target is empty and the live document had one line
WholeDocumentBlanked == newText = <<>> /\ seenLen = 1

\* C14 as stated (checked under Spec): when the fast path completes and the
\* target has fewer lines than the live document (target text not ending in
\* a line separator), the blank lines left make the re-read text differ, so
\* the invocation ends with VerificationFailed and never returns success.
C14_FastShrinkFailsVerification ==
    FastShrinks =>
        /\ result # "void"
        /\ pc = "done" => result = "VerificationFailed"

\* C14 amended (checked under Spec): the fast path then leaves the target's
\* lines followed by one blank line for every excess line; when the re-read
\* finds the document so (no other writer has changed it since), the re-read
\* text differs from the target and the call ends with VerificationFailed,
\* never with success, except when the target is empty and the document had
\* one line: the blanked line is the whole document, its text is the empty
\* target, and the call succeeds.
C14_FastShrinkLeavesBlanks ==
    /\ [][(FastCompletes /\ FastShrinks') => TextsOf(doc') = LeftByFastPath']_vars
    /\ []((FastShrinks /\ pc = "done" /\ afterText = JoinNL(LeftByFastPath)) =>
              IF WholeDocumentBlanked THEN result = "void"
              ELSE result = "VerificationFailed")

C14_Witness ==
    /\ FastShrinks /\ newText # <<>>
    /\ pc = "done" /\ result = "VerificationFailed"
    /\ afterText = JoinNL(LeftByFastPath)
    /\ afterText = newText \o <<NL>>

\* the Error of findLine, or the TimeoutError of an action on its locator
SlowFailed == result \in {"LineNotFound", "TimeoutError"}

\* C15 (checked under Spec): a slow-path step that fails ends the invocation
\* with that error: no further group or mutating action is executed, the
\* step is not retried, nothing already applied is rolled back and no
\* verification read is made; the document may be left in between.
C15_SlowFailureIsFatal ==
    /\ [](SlowFailed =>
            /\ pc = "done"
            /\ cap \in {"absent", "throws"}
            /\ afterText = Unread)
    /\ [][SlowFailed =>
            /\ SlowFailed'
            /\ <<slowMuts, fastMuts, nextId>>' = <<slowMuts, fastMuts, nextId>>
            /\ <<groups, indices, delDone>>' = <<groups, indices, delDone>>
            /\ (writes' = writes => doc' = doc)]_vars
    /\ [][(pc \in SlowPcs /\ SlowFailed') =>
            /\ doc' = doc
            /\ pageOpen /\ pageOpen'
            /\ <<slowMuts, indices, delDone>>' = <<slowMuts, indices, delDone>>]_vars

C15_Witness ==
    /\ SlowFailed /\ pc = "done"
    /\ slowMuts > 0 /\ doc # lines
    /\ indices # <<>> /\ delDone < HeadGroup.removeCount
    /\ afterText = Unread

\* the positions each strategy of findLine matches in the live document
ById == {p \in 1..Len(doc) : lines[1].id # NoId /\ doc[p].id = lines[1].id}
ByIndex == {p \in 1..Len(doc) : p = indices[1] + 1}
ByText ==
    {p \in 1..Len(doc) : lines[1].text # <<>> /\ Contains(doc[p].text, lines[1].text)}
FirstOf(S) == CHOOSE p \in S : \A q \in S : p <= q

\* the positions read k of findLine matches in the live document: the first
\* two id selectors name the line elements, the ordinal index comes after the
\* id selectors, the text last
ReadOf(k) ==
    IF k <= IdSelectors THEN (IF k <= 2 THEN ById ELSE {})
    ELSE IF k = IdSelectors + 1 THEN ByIndex
    ELSE ByText
\* a step of findLine: one more read is made
FindReads == pc = "find" /\ probe' # probe

\* C16 (checked under SpecFind): findLine resolves a reference against the
\* live document by id when an id is present and found, else at the ordinal
\* index, else by the first text match when a text is given; an earlier match
\* wins whatever the later strategies would give, and it fails with
\* LineNotFound only when every applicable strategy finds nothing.  Every
\* read is of the document as it is then: a read that matches ends the
\* search with its first match, a strategy is consulted only after the
\* earlier ones found nothing and none is consulted after a match.
C16_FindLineFirstSuccessWins ==
    /\ []((pc = "done" /\ writes = 0) =>
            /\ ById # {} => located = FirstOf(ById)
            /\ (ById = {} /\ ByIndex # {}) => located = FirstOf(ByIndex)
            /\ (ById = {} /\ ByIndex = {} /\ ByText # {}) => located = FirstOf(ByText)
            /\ (located = 0) <=> (ById = {} /\ ByIndex = {} /\ ByText = {})
            /\ (result = "LineNotFound") <=> (located = 0)
            /\ located = findLine(doc, lines[1], indices[1]))
    /\ [](pc = "find" => (located = 0 /\ result = "none"))
    /\ [][FindReads =>
            /\ probe' > probe
            /\ probe' <= IdSelectors => lines[1].id # NoId
            /\ probe' = IdSelectors + 2 => lines[1].text # <<>>
            /\ IF ReadOf(probe') # {}
               THEN /\ pc' = "done" /\ result' = "line"
                    /\ located' = FirstOf(ReadOf(probe'))
               ELSE /\ located' = 0
                    /\ pc' = "done" =>
                          /\ result' = "LineNotFound"
                          /\ probe' >= IdSelectors + 1
                          /\ probe' = IdSelectors + 1 => lines[1].text = <<>>]_vars
    /\ [][pc = "done" => probe' = probe]_vars

C16_Witness ==
    /\ pc = "done" /\ result = "line" /\ writes = 0
    /\ ById = {} /\ ByIndex = {}
    /\ Cardinality(ByText) = 2 /\ located = 1
    /\ lines[1].id # NoId /\ probe = IdSelectors + 2

\* the original-index cursor of buildOps after its loop
PlannedCursor == buildOpsLoop(diffLines(originalText, newText), 1, <<>>, 0).index
RECURSIVE OpLines(_, _, _)
OpLines(os, k, type) ==
    IF k > Len(os) THEN 0
    ELSE (IF os[k].type # type THEN 0
          ELSE IF type = "remove" THEN os[k].count ELSE Len(os[k].lines))
         + OpLines(os, k + 1, type)

\* C17 (checked under SpecSim): the line counts the planner uses are the
\* numbers of document lines the runs span: after planning the cursor equals
\* the number of lines of the original document, and the removed and
\* inserted line counts account for the target's number of lines, also when
\* the original or the target ends with an empty line.
C17_CursorCoversOriginal ==
    pc # "plan" =>
        /\ PlannedCursor = Len(lines)
        /\ Len(lines) - OpLines(ops, 1, "remove") + OpLines(ops, 1, "insert")
               = Len(SplitNL(newText))

\* the re-fetch was made and found the token of the initial read
CheckPassed ==
    opts.checkUpdated /\ ~opts.dryRun /\ latest # NotFetched /\ latest = baseUpdated

\* C18 (checked under Spec): the staleness check does not close the race
\* window: ConcurrentModification is raised only on a mismatch at the
\* re-fetch; when the check has passed, a modification by another writer
\* made afterwards is not rejected and the invocation goes on into its apply
\* phase; such an interleaving is reachable, no lock being held.
C18_CheckLeavesRaceWindow ==
    /\ result = "ConcurrentModification" => (latest # NotFetched /\ latest # baseUpdated)
    /\ (CheckPassed /\ updated # latest) =>
           /\ result # "ConcurrentModification"
           /\ (pc = "done" /\ ops # <<>>) => cap # "unknown"

C18_Witness ==
    /\ CheckPassed /\ updated # latest /\ writes > 0
    /\ pc = "done" /\ Mutations > 0
    /\ result = "VerificationFailed"
    /\ linesToText(doc) # newText

====
